---- MODULE Spec2Model ----
(***************************************************************************)
(* gb-stopwatch: a Game Boy stopwatch.  A timer interrupt advances the     *)
(* hundredths / seconds / minutes counters, the main loop polls the joypad *)
(* once per frame to start, pause and reset, and redraws the time.         *)
(*                                                                         *)
(* Two revisions of the firmware are modelled side by side:                *)
(*   rev = "bin"  src/src/main.c        binary counters, 100 ticks/second  *)
(*   rev = "bcd"  src/unnamed/part_000  BCD seconds/minutes, 128 ticks/s   *)
(***************************************************************************)
EXTENDS Integers, Sequences, FiniteSets

VARIABLES
    rev,             \* which revision of the firmware runs
    is_cpu_fast,     \* set once by set_cpu: double-speed (CGB) mode
    stopwatch,       \* bool stopwatch: the run state (TRUE = Running)
    play_tick_sfx,   \* bool play_tick_sfx: the tick cue flag
    minutes,         \* volatile uint8_t minutes
    seconds,         \* volatile uint8_t seconds
    hundredths,      \* volatile uint8_t hundredths (the sub-unit)
    TAC_REG,         \* timer control register
    IF_TIM,          \* timer bit of the interrupt request register
    pc,              \* position of the main loop
    pad,             \* buttons physically held now (what joypad() returns)
    prev_joypad,     \* static prev_joypad of handle_inputs
    current_joypad,  \* local current_joypad of handle_inputs
    num_zeros,       \* uint8_t num_zeros (binary revision)
    vram,            \* tiles of row 6, columns 6..14 of the background map
    isrs,            \* history: number of stopwatch_timer_isr invocations
    idle_isrs,       \* history: invocations that found stopwatch FALSE
    pressA,          \* history: start/pause transitions caused by the current press
                     \* of A; 2 is kept once some press of A has caused two
    pressB,          \* history: the same for resets and presses of B
    f_run0,          \* history, inside handle_inputs: stopwatch when it began
    f_trans,         \* history, inside handle_inputs: the transitions it executed
    since_reset,     \* history: a reset ran and no start has begun since
    cues,            \* history: number of tick cues triggered (sfx_2)
    TIMA_REG,        \* timer counter register (counted in SpecTimer only; Spec and
                     \* SpecTick abstract the timer to its overflows)
    TMA_REG,         \* timer modulo register
    flag_sets,       \* history: ISR invocations that executed play_tick_sfx = TRUE
    sec_incs,        \* history: ISR invocations that incremented seconds
    isr_in_print,    \* history: the ISR ran after the first read of this frame's
                     \* print_stopwatch
    print_t0,        \* history: the counters at the first read of this frame's
                     \* print_stopwatch
    fresh_start      \* history: a start has followed a reset, and the ISR has not
                     \* incremented seconds since that start

hw      == <<rev, is_cpu_fast, TAC_REG, IF_TIM>>
time    == <<minutes, seconds, hundredths>>
flags   == <<stopwatch, play_tick_sfx>>
input   == <<pad, prev_joypad, current_joypad>>
screen  == <<num_zeros, vram>>
history == <<isrs, idle_isrs, pressA, pressB, f_run0, f_trans, since_reset, cues>>
timer   == <<TIMA_REG, TMA_REG>>
counts  == <<flag_sets, sec_incs>>
marks   == <<print_t0, fresh_start>>
vars    == <<hw, time, flags, input, screen, history, pc, timer, counts, isr_in_print,
             marks>>

-----------------------------------------------------------------------------
(* Bounds of the model *)

\* SpecTick: the longest continuous run, in timer interrupts (128 * 3600)
MaxRunTicks == 460800
\* Spec: the number of timer overflows in one behaviour
MaxTicks == 2
MaxTimerTicks == 2

-----------------------------------------------------------------------------
(* Program constants *)

TMA_REG_REALTIME_DMG == 92
TMA_REG_REALTIME_GBC == 174
TAC_REG_STOP       == 0
TAC_REG_START_1024 == 4
TAC_REG_START_256  == 7
TACF_START         == 4
TACF_4KHZ          == 0
TACF_STOP          == 0
NUMBERS_BASE_TILE_IDX == 16
text_LUT_ascii_base_idx == 0

Revisions == {"bin", "bcd"}
J_A == "A"
J_B == "B"
Buttons == {J_A, J_B}

\* ticks per second of a revision: hundredths >= 100, or (hundredths + 1) & 0x7F
SubUnits(r) == IF r = "bin" THEN 100 ELSE 128

\* bit 2 of TAC enables the timer (the table of TAC values in the source notes)
TimerActive(tac) == (tac \div 4) % 2 = 1

-----------------------------------------------------------------------------
(* SM83 arithmetic used by the BCD revision's inline assembly *)

\* add #0x01: result and the half-carry / carry flags it leaves
AddOne(a) == [a |-> (a + 1) % 256, h |-> (a % 16) + 1 > 15, c |-> a + 1 > 255]

\* mutant: daa without any adjustment
DaaNoAdjust(a, h, c) == a

\* daa after an addition (N = 0)
Daa(a, h, c) ==
    LET a1 == IF c \/ a > 153 THEN (a + 96) % 256 ELSE a
        a2 == IF h \/ (a1 % 16) > 9 THEN (a1 + 6) % 256 ELSE a1
    IN  a2

\* ld a,(x) ; add #0x01 ; daa ; ld (x),a
BcdIncrement(x) == LET r == AddOne(x) IN Daa(r.a, r.h, r.c)

\* value of a BCD byte, and the BCD byte of a value 0..99
BcdDecode(x) == (x \div 16) * 10 + (x % 16)
BcdEncode(n) == (n \div 10) * 16 + (n % 10)

\* the decimal value the counters of a revision stand for
Decode(r, x) == IF r = "bin" THEN x ELSE BcdDecode(x)
Encode(r, n) == IF r = "bin" THEN n ELSE BcdEncode(n)

-----------------------------------------------------------------------------
(* stopwatch_timer_isr *)

Time(m, s, h, f) == [m |-> m, s |-> s, h |-> h, f |-> f]

\* mutant: the handler counts whatever the run state
IsrRunsAlways(sw) == TRUE

\* if (stopwatch): the ISR counts only while Running
IsrRuns(sw) == sw

\* mutant: the sub-unit carries one tick late (> 100 for >= 100)
stopwatch_timer_isr_bin_late_carry(sw, m, s, h, f) ==
    IF ~IsrRuns(sw) THEN Time(m, s, h, f)
    ELSE LET h1 == (h + 1) % 256 IN
         IF h1 > 100
         THEN LET s1 == (s + 1) % 256 IN
              IF s1 >= 60
              THEN Time((m + 1) % 256, 0, 0, TRUE)
              ELSE Time(m, s1, 0, TRUE)
         ELSE Time(m, s, h1, f)

\* mutant: the cue flag is raised on every counted tick
stopwatch_timer_isr_bin_flag_each_tick(sw, m, s, h, f) ==
    IF ~IsrRuns(sw) THEN Time(m, s, h, f)
    ELSE LET h1 == (h + 1) % 256 IN
         IF h1 >= 100
         THEN LET s1 == (s + 1) % 256 IN
              IF s1 >= 60
              THEN Time((m + 1) % 256, 0, 0, TRUE)
              ELSE Time(m, s1, 0, TRUE)
         ELSE Time(m, s, h1, TRUE)

\* binary revision: hundredths++, carry at 100, seconds carry at 60, minutes++
stopwatch_timer_isr_bin(sw, m, s, h, f) ==
    IF ~IsrRuns(sw) THEN Time(m, s, h, f)
    ELSE LET h1 == (h + 1) % 256 IN
         IF h1 >= 100
         THEN LET s1 == (s + 1) % 256 IN
              IF s1 >= 60
              THEN Time((m + 1) % 256, 0, 0, TRUE)
              ELSE Time(m, s1, 0, TRUE)
         ELSE Time(m, s, h1, f)

\* mutant: the cue flag is raised only when seconds roll over to 0
stopwatch_timer_isr_bcd_flag_on_minute(sw, m, s, h, f) ==
    IF ~IsrRuns(sw) THEN Time(m, s, h, f)
    ELSE LET h1 == (h + 1) % 128 IN
         IF h1 = 0
         THEN LET s1 == BcdIncrement(s) IN
              IF s1 >= 96
              THEN Time(BcdIncrement(m), 0, 0, TRUE)
              ELSE Time(m, s1, 0, f)
         ELSE Time(m, s, h1, f)

\* mutant: seconds carry one increment late (> 0x60 for >= 0x60)
stopwatch_timer_isr_bcd_late_carry(sw, m, s, h, f) ==
    IF ~IsrRuns(sw) THEN Time(m, s, h, f)
    ELSE LET h1 == (h + 1) % 128 IN
         IF h1 = 0
         THEN LET s1 == BcdIncrement(s) IN
              IF s1 > 96
              THEN Time(BcdIncrement(m), 0, 0, TRUE)
              ELSE Time(m, s1, 0, TRUE)
         ELSE Time(m, s, h1, f)

\* BCD revision: hundredths wraps at 128, seconds and minutes by add/daa
stopwatch_timer_isr_bcd(sw, m, s, h, f) ==
    IF ~IsrRuns(sw) THEN Time(m, s, h, f)
    ELSE LET h1 == (h + 1) % 128 IN
         IF h1 = 0
         THEN LET s1 == BcdIncrement(s) IN
              IF s1 >= 96
              THEN Time(BcdIncrement(m), 0, 0, TRUE)
              ELSE Time(m, s1, 0, TRUE)
         ELSE Time(m, s, h1, f)

stopwatch_timer_isr(r, sw, m, s, h, f) ==
    IF r = "bin" THEN stopwatch_timer_isr_bin(sw, m, s, h, f)
                 ELSE stopwatch_timer_isr_bcd(sw, m, s, h, f)

\* the main loop's positions after the first read print_stopwatch makes of a
\* counter, up to the cue test that follows it
AfterFirstRead == {"pr2", "pr3", "pr4", "pr5", "pr6", "cue_chk"}

\* whether an invocation in the current state executes play_tick_sfx = TRUE:
\* the flag the handler returns when it is entered with the flag clear
IsrSetsFlag ==
    stopwatch_timer_isr(rev, stopwatch, minutes, seconds, hundredths, FALSE).f

\* the effect of one invocation of the handler on the state
RunIsr ==
    LET n == stopwatch_timer_isr(rev, stopwatch, minutes, seconds, hundredths,
                                 play_tick_sfx)
    IN  /\ minutes' = n.m
        /\ seconds' = n.s
        /\ hundredths' = n.h
        /\ play_tick_sfx' = n.f
        /\ isrs' = isrs + 1
        /\ idle_isrs' = IF stopwatch THEN idle_isrs ELSE idle_isrs + 1
        /\ flag_sets' = flag_sets + (IF IsrSetsFlag THEN 1 ELSE 0)
        /\ sec_incs' = sec_incs + (IF n.s # seconds THEN 1 ELSE 0)
        /\ isr_in_print' = (isr_in_print \/ pc \in AfterFirstRead)
        /\ fresh_start' = (fresh_start /\ n.s = seconds)

-----------------------------------------------------------------------------
(* Interrupts.  add_TIM handlers run with interrupts disabled, so one       *)
(* invocation of stopwatch_timer_isr is atomic.  CRITICAL masks interrupts: *)
(* an overflow inside it stays requested in IF and is dispatched when the   *)
(* section ends, before the main loop executes anything else.               *)

InCritical == pc \in {"pause_tac", "pause_flag", "start_tac", "start_flag"}

\* the main loop executes only when no dispatchable interrupt is requested
MainMay == ~(IF_TIM /\ ~InCritical)

\* timer overflows counted so far (served or still requested)
Overflows == isrs + (IF IF_TIM THEN 1 ELSE 0)

\* the timer overflows with interrupts enabled: the handler is dispatched at once
Tick(cap) ==
    /\ TimerActive(TAC_REG)
    /\ ~InCritical
    /\ ~IF_TIM
    /\ Overflows < cap
    /\ RunIsr
    /\ UNCHANGED <<hw, stopwatch, input, screen, pc,
                   pressA, pressB, f_run0, f_trans, since_reset, cues>>
    /\ UNCHANGED <<timer, print_t0>>

\* the timer overflows inside a CRITICAL section: the request waits in IF.
\* (The section is a few instructions long and the timer period is thousands
\*  of cycles, so at most one overflow falls inside it.)
OverflowMasked(cap) ==
    /\ TimerActive(TAC_REG)
    /\ InCritical
    /\ ~IF_TIM
    /\ Overflows < cap
    /\ IF_TIM' = TRUE
    /\ UNCHANGED <<rev, is_cpu_fast, TAC_REG, time, flags, input, screen,
                   history, pc>>
    /\ UNCHANGED <<timer, counts, isr_in_print, marks>>

\* the request left by a masked overflow is dispatched when interrupts return
IsrPending ==
    /\ IF_TIM
    /\ ~InCritical
    /\ IF_TIM' = FALSE
    /\ RunIsr
    /\ UNCHANGED <<rev, is_cpu_fast, TAC_REG, stopwatch, input, screen, pc,
                   pressA, pressB, f_run0, f_trans, since_reset, cues>>
    /\ UNCHANGED <<timer, print_t0>>

-----------------------------------------------------------------------------
(* The joypad: buttons are pressed and released at any instant *)

Press(b) ==
    /\ b \notin pad
    /\ pad' = pad \cup {b}
    /\ pressA' = IF b = J_A /\ pressA < 2 THEN 0 ELSE pressA
    /\ pressB' = IF b = J_B /\ pressB < 2 THEN 0 ELSE pressB
    /\ UNCHANGED <<hw, time, flags, prev_joypad, current_joypad, screen, pc,
                   isrs, idle_isrs, f_run0, f_trans, since_reset, cues>>
    /\ UNCHANGED <<timer, counts, isr_in_print, marks>>

Release(b) ==
    /\ b \in pad
    /\ pad' = pad \ {b}
    /\ pressA' = IF b = J_A /\ pressA < 2 THEN 0 ELSE pressA
    /\ pressB' = IF b = J_B /\ pressB < 2 THEN 0 ELSE pressB
    /\ UNCHANGED <<hw, time, flags, prev_joypad, current_joypad, screen, pc,
                   isrs, idle_isrs, f_run0, f_trans, since_reset, cues>>
    /\ UNCHANGED <<timer, counts, isr_in_print, marks>>

-----------------------------------------------------------------------------
(* handle_inputs *)

\* (joypad() & J_A) && !(prev_joypad & J_A)
ConfirmEdge(now, prev) == J_A \in now /\ J_A \notin prev

\* mutant: the cancel test without the run-state guard
CancelEdgeUnguarded(now, prev, sw) == J_B \in now /\ J_B \notin prev

\* (joypad() & J_B) && !(prev_joypad & J_B) && !stopwatch
CancelEdge(now, prev, sw) == J_B \in now /\ J_B \notin prev /\ ~sw

\* uint8_t current_joypad = joypad();
HiRead ==
    /\ pc = "hi_cur" /\ MainMay
    /\ current_joypad' = pad
    /\ f_run0' = stopwatch
    /\ f_trans' = {}
    /\ pc' = "hi_A"
    /\ UNCHANGED <<hw, time, flags, pad, prev_joypad, screen,
                   isrs, idle_isrs, pressA, pressB, since_reset, cues>>
    /\ UNCHANGED <<timer, counts, isr_in_print, marks>>

\* the confirm test, a second joypad() read; on an edge the call enters the
\* CRITICAL section of pause_stopwatch or start_stopwatch
HiConfirm ==
    /\ pc = "hi_A" /\ MainMay
    /\ IF ConfirmEdge(pad, prev_joypad)
       THEN /\ pc' = IF stopwatch THEN "pause_tac" ELSE "start_tac"
            /\ pressA' = IF pressA < 2 THEN pressA + 1 ELSE 2
       ELSE /\ pc' = "hi_B"
            /\ pressA' = pressA
    /\ UNCHANGED <<hw, time, flags, input, screen,
                   isrs, idle_isrs, pressB, f_run0, f_trans, since_reset, cues>>
    /\ UNCHANGED <<timer, counts, isr_in_print, marks>>

\* mutant: pause_stopwatch leaves the timer's start bit set
PauseTacStillRunning(r) == TAC_REG_START_1024

\* the timer control value pause_stopwatch writes
PauseTac(r) == IF r = "bin" THEN TAC_REG_STOP ELSE TACF_STOP

\* mutant: the clock is selected but the start bit is left out
StartTacNoStartBit(r, fast) == TACF_4KHZ

\* mutant: the binary revision selects the same clock in both CPU speed modes
StartTacOneClock(r, fast) ==
    IF r = "bin" THEN TAC_REG_START_256 ELSE TACF_4KHZ + TACF_START

\* start_stopwatch's TAC value
StartTac(r, fast) ==
    IF r = "bin" THEN (IF fast THEN TAC_REG_START_1024 ELSE TAC_REG_START_256)
                 ELSE TACF_4KHZ + TACF_START

\* the registers and variables the control functions and the handler work on
Regs ==
    [tac |-> TAC_REG, sw |-> stopwatch, tima |-> TIMA_REG, tma |-> TMA_REG,
     m |-> minutes, s |-> seconds, h |-> hundredths]

\* mutant: pausing restarts the current timer period
pause_stopwatch_reloads_tima(r, st) ==
    [st EXCEPT !.tac = PauseTac(r), !.sw = FALSE, !.tima = st.tma]

\* mutant: pausing toggles the run state and the timer's start bit
pause_stopwatch_toggles(r, st) ==
    [st EXCEPT !.tac = IF st.sw THEN PauseTac(r) ELSE StartTac(r, FALSE),
               !.sw = ~st.sw]

\* pause_stopwatch: TAC_REG = stop; stopwatch = FALSE ("dont reset TIMA_REG,
\* pick up where it left off")
pause_stopwatch(r, st) == [st EXCEPT !.tac = PauseTac(r), !.sw = FALSE]

\* start_stopwatch: TAC_REG = start; stopwatch = TRUE
start_stopwatch(r, fast, st) == [st EXCEPT !.tac = StartTac(r, fast), !.sw = TRUE]

\* pause_stopwatch: start of CRITICAL, TAC_REG = stop
PauseWriteTac ==
    /\ pc = "pause_tac"
    /\ LET st == pause_stopwatch(rev, Regs)
       IN  TAC_REG' = st.tac /\ TIMA_REG' = st.tima /\ TMA_REG' = st.tma
    /\ pc' = "pause_flag"
    /\ UNCHANGED <<rev, is_cpu_fast, IF_TIM, time, flags, input, screen, history>>
    /\ UNCHANGED <<counts, isr_in_print, marks>>

\* pause_stopwatch: stopwatch = FALSE, end of CRITICAL
PauseWriteFlag ==
    /\ pc = "pause_flag"
    /\ LET st == pause_stopwatch(rev, Regs)
       IN  /\ stopwatch' = st.sw
           /\ minutes' = st.m /\ seconds' = st.s /\ hundredths' = st.h
    /\ f_trans' = f_trans \cup {"pause"}
    /\ pc' = "hi_B"
    /\ UNCHANGED <<hw, play_tick_sfx, input, screen,
                   isrs, idle_isrs, pressA, pressB, f_run0, since_reset, cues>>
    /\ UNCHANGED <<timer, counts, isr_in_print, marks>>

\* start_stopwatch: TAC_REG = start
StartWriteTac ==
    /\ pc = "start_tac"
    /\ LET st == start_stopwatch(rev, is_cpu_fast, Regs)
       IN  TAC_REG' = st.tac /\ TIMA_REG' = st.tima /\ TMA_REG' = st.tma
    /\ since_reset' = FALSE
    /\ fresh_start' = (fresh_start \/ since_reset)
    /\ pc' = "start_flag"
    /\ UNCHANGED <<rev, is_cpu_fast, IF_TIM, time, flags, input, screen,
                   isrs, idle_isrs, pressA, pressB, f_run0, f_trans, cues>>
    /\ UNCHANGED <<counts, isr_in_print, print_t0>>

\* start_stopwatch: stopwatch = TRUE, end of CRITICAL
StartWriteFlag ==
    /\ pc = "start_flag"
    /\ LET st == start_stopwatch(rev, is_cpu_fast, Regs)
       IN  /\ stopwatch' = st.sw
           /\ minutes' = st.m /\ seconds' = st.s /\ hundredths' = st.h
    /\ f_trans' = f_trans \cup {"start"}
    /\ pc' = "hi_B"
    /\ UNCHANGED <<hw, play_tick_sfx, input, screen,
                   isrs, idle_isrs, pressA, pressB, f_run0, since_reset, cues>>
    /\ UNCHANGED <<timer, counts, isr_in_print, marks>>

\* the cancel test, a third joypad() read
HiCancel ==
    /\ pc = "hi_B" /\ MainMay
    /\ IF CancelEdge(pad, prev_joypad, stopwatch)
       THEN /\ pc' = "reset"
            /\ pressB' = IF pressB < 2 THEN pressB + 1 ELSE 2
       ELSE /\ pc' = "hi_prev"
            /\ pressB' = pressB
    /\ f_trans' = IF J_B \in pad /\ J_B \notin prev_joypad /\ stopwatch
                  THEN f_trans \cup {"cancel_ignored"} ELSE f_trans
    /\ UNCHANGED <<hw, time, flags, input, screen,
                   isrs, idle_isrs, pressA, f_run0, since_reset, cues>>
    /\ UNCHANGED <<timer, counts, isr_in_print, marks>>

\* printf("00:00:00") at (6,6): tile = character - ' ' with the font at tile 0
TimeZeroTiles == <<16, 16, 26, 16, 16, 26, 16, 16>>

\* mutant: reset forgets the sub-unit counter
ResetTimeKeepsHundredths == [m |-> 0, s |-> 0, h |-> hundredths]

\* the counters reset_stopwatch leaves
ResetTime == [m |-> 0, s |-> 0, h |-> 0]

\* reset_stopwatch
ResetStopwatch ==
    /\ pc = "reset" /\ MainMay
    /\ stopwatch' = FALSE
    /\ minutes' = ResetTime.m
    /\ seconds' = ResetTime.s
    /\ hundredths' = ResetTime.h
    /\ vram' = [i \in 1..9 |-> IF i <= 8 THEN TimeZeroTiles[i] ELSE vram[i]]
    /\ f_trans' = f_trans \cup {"reset"}
    /\ since_reset' = TRUE
    /\ pc' = "hi_prev"
    /\ UNCHANGED <<hw, play_tick_sfx, input, num_zeros,
                   isrs, idle_isrs, pressA, pressB, f_run0, cues>>
    /\ UNCHANGED <<timer, counts, isr_in_print, marks>>

\* prev_joypad = current_joypad;
HiPrev ==
    /\ pc = "hi_prev" /\ MainMay
    /\ prev_joypad' = current_joypad
    /\ current_joypad' = {}
    /\ f_run0' = FALSE
    /\ f_trans' = {}
    /\ pc' = "vsync"
    /\ UNCHANGED <<hw, time, flags, pad, screen,
                   isrs, idle_isrs, pressA, pressB, since_reset, cues>>
    /\ UNCHANGED <<timer, counts, isr_in_print, marks>>

\* vsync(): wait for the next frame
Vsync ==
    /\ pc = "vsync" /\ MainMay
    /\ pc' = "hs"
    /\ UNCHANGED <<hw, time, flags, input, screen, history>>
    /\ UNCHANGED <<timer, counts, isr_in_print, marks>>

-----------------------------------------------------------------------------
(* print_stopwatch: six reads of the volatile counters, each followed by its *)
(* tile writes; the ISR may run between any two of them                      *)

Cell(col) == col - 5

\* tile of a decimal digit
DigitTile(d) == NUMBERS_BASE_TILE_IDX + d

\* uitoa(value, buffer, 10): the decimal digits, no leading zeros
Uitoa(n) ==
    IF n >= 100 THEN <<n \div 100, (n \div 10) % 10, n % 10>>
    ELSE IF n >= 10 THEN <<n \div 10, n % 10>>
    ELSE <<n>>

\* mutant: the leading zero is kept for the value 10
NumZerosUpToTen(n) == IF n > 10 THEN 0 ELSE 1

\* num_zeros = (value > 9) ? 0 : 1
NumZeros(n) == IF n > 9 THEN 0 ELSE 1

\* draw_numbers_ascii(x, 6, buffer): num_zeros zero tiles, then the digits
DrawNumbersAscii(v, x, nz, digits) ==
    LET tiles == [j \in 1..nz |-> text_LUT_ascii_base_idx + 16] \o
                 [j \in 1..Len(digits) |-> text_LUT_ascii_base_idx + 16 + digits[j]]
    IN  [i \in 1..9 |->
            IF i >= Cell(x) /\ i < Cell(x) + Len(tiles)
            THEN tiles[i - Cell(x) + 1] ELSE v[i]]

\* mutant: the table rounds to the nearest hundredth
MilTable128Rounded == [i \in 1..128 |-> ((i - 1) * 100 + 64) \div 128]

MilTable128 ==
    << 0, 0, 1, 2, 3, 3, 4, 5, 6, 7, 7, 8, 9, 10, 10, 11,
       12, 13, 14, 14, 15, 16, 17, 17, 18, 19, 20, 21, 21, 22, 23, 24,
       25, 25, 26, 27, 28, 28, 29, 30, 31, 32, 32, 33, 34, 35, 35, 36,
       37, 38, 39, 39, 40, 41, 42, 42, 43, 44, 45, 46, 46, 47, 48, 49,
       50, 50, 51, 52, 53, 53, 54, 55, 56, 57, 57, 58, 59, 60, 60, 61,
       62, 63, 64, 64, 65, 66, 67, 67, 68, 69, 70, 71, 71, 72, 73, 74,
       75, 75, 76, 77, 78, 78, 79, 80, 81, 82, 82, 83, 84, 85, 85, 86,
       87, 88, 89, 89, 90, 91, 92, 92, 93, 94, 95, 96, 96, 97, 98, 99 >>

\* MilTable128[i][0] and MilTable128[i][1] as digits
MilDigit(i, k) == IF k = 0 THEN MilTable128[i + 1] \div 10 ELSE MilTable128[i + 1] % 10

\* the volatile counter the k-th read of print_stopwatch fetches
PrintField(r, k) ==
    IF r = "bin"
    THEN (IF k <= 2 THEN minutes ELSE IF k <= 4 THEN seconds ELSE hundredths)
    ELSE (IF k <= 2 THEN hundredths ELSE IF k <= 4 THEN seconds ELSE minutes)

\* binary revision, read k of 1..6: odd reads set num_zeros, even reads convert
\* and draw; the last one is followed by set_bkg_tile_xy(14, 6, 0)
PrintStepBin(k) ==
    LET x == PrintField("bin", k) IN
    IF k % 2 = 1
    THEN /\ num_zeros' = NumZeros(x)
         /\ vram' = vram
    ELSE LET col   == IF k = 2 THEN 6 ELSE IF k = 4 THEN 9 ELSE 12
             drawn == DrawNumbersAscii(vram, col, num_zeros, Uitoa(x))
         IN  /\ vram' = IF k = 6 THEN [drawn EXCEPT ![Cell(14)] = 0] ELSE drawn
             /\ num_zeros' = num_zeros

\* BCD revision, read k of 1..6: one set_vram_byte per read
PrintStepBcd(k) ==
    LET x == PrintField("bcd", k) IN
    /\ num_zeros' = num_zeros
    /\ vram' =
         IF k = 1 THEN [vram EXCEPT ![Cell(12)] = DigitTile(MilDigit(x, 0))]
         ELSE IF k = 2 THEN [vram EXCEPT ![Cell(13)] = DigitTile(MilDigit(x, 1))]
         ELSE IF k = 3 THEN [vram EXCEPT ![Cell(9)] = DigitTile((x \div 16) % 16)]
         ELSE IF k = 4 THEN [vram EXCEPT ![Cell(10)] = DigitTile(x % 16)]
         ELSE IF k = 5 THEN [vram EXCEPT ![Cell(6)] = DigitTile((x \div 16) % 16)]
         ELSE [vram EXCEPT ![Cell(7)] = DigitTile(x % 16)]

PrintPc == <<"pr1", "pr2", "pr3", "pr4", "pr5", "pr6", "cue_chk">>

PrintStopwatch(k) ==
    /\ pc = PrintPc[k] /\ MainMay
    /\ IF rev = "bin" THEN PrintStepBin(k) ELSE PrintStepBcd(k)
    /\ pc' = PrintPc[k + 1]
    /\ print_t0' = IF k = 1 THEN <<minutes, seconds, hundredths>> ELSE print_t0
    /\ UNCHANGED <<hw, time, flags, input, history>>
    /\ UNCHANGED <<timer, counts, isr_in_print, fresh_start>>

-----------------------------------------------------------------------------
(* handle_stopwatch *)

\* if (stopwatch) print_stopwatch() ...
HandleStopwatch ==
    /\ pc = "hs" /\ MainMay
    /\ pc' = IF stopwatch THEN "pr1" ELSE "hi_cur"
    /\ UNCHANGED <<hw, time, flags, input, screen, history>>
    /\ isr_in_print' = FALSE
    /\ UNCHANGED <<timer, counts, marks>>

\* mutant: the tick cue is played in every Running frame
CueDueAlways(f) == TRUE

\* if (play_tick_sfx): the tick cue is due when the flag is set
CueDue(f) == f

\* if (play_tick_sfx) { VOLUME_LOW; sfx_2(); ...
CueCheck ==
    /\ pc = "cue_chk" /\ MainMay
    /\ IF CueDue(play_tick_sfx)
       THEN pc' = "cue_clr" /\ cues' = cues + 1
       ELSE pc' = "hi_cur" /\ cues' = cues
    /\ UNCHANGED <<hw, time, flags, input, screen,
                   isrs, idle_isrs, pressA, pressB, f_run0, f_trans, since_reset>>
    /\ isr_in_print' = FALSE
    /\ print_t0' = <<0, 0, 0>>
    /\ UNCHANGED <<timer, counts, fresh_start>>

\* ... play_tick_sfx = FALSE; }
CueClear ==
    /\ pc = "cue_clr" /\ MainMay
    /\ play_tick_sfx' = FALSE
    /\ pc' = "hi_cur"
    /\ UNCHANGED <<hw, time, stopwatch, input, screen, history>>
    /\ UNCHANGED <<timer, counts, isr_in_print, marks>>

-----------------------------------------------------------------------------
(* Initial states *)

\* the tiles of a stopped display that shows the counters
Render(r, m, s, h) ==
    LET two(n) == <<DigitTile(n \div 10), DigitTile(n % 10)>>
        sub    == IF r = "bin" THEN h ELSE MilTable128[h + 1]
    IN  two(Decode(r, m)) \o <<26>> \o two(Decode(r, s)) \o <<26>> \o two(sub) \o <<0>>

\* mutant: the modulo of Normal mode is written in both CPU speed modes
TimerModuloOneValue(r, fast) ==
    IF r = "bin" THEN TMA_REG_REALTIME_DMG ELSE 256 - 32

\* the modulo the boot code writes to TMA_REG: set_timer_realtime_reg in the
\* binary revision, set_timer_reg_stopwatch in the BCD revision
TimerModulo(r, fast) ==
    IF r = "bin" THEN (IF fast THEN TMA_REG_REALTIME_GBC ELSE TMA_REG_REALTIME_DMG)
                 ELSE (IF fast THEN 256 - 64 ELSE 256 - 32)

\* TIMA_REG while stopped at the elapsed time t. set_timer_realtime_reg writes
\* the modulo to TIMA_REG as well; set_timer_reg_stopwatch leaves TIMA_REG at
\* its power-on value 0. A later time is taken right after the overflow that
\* produced it, when the hardware has reloaded TIMA_REG from TMA_REG.
TimerCounterAt(r, fast, t) ==
    IF r = "bcd" /\ t = <<0, 0, 0>> THEN 0 ELSE TimerModulo(r, fast)

\* elapsed times (minutes, seconds, sub-unit) a stopped stopwatch starts from:
\* power-on, and times one tick before a carry of each kind
StartTimes(r) ==
    { <<0, 0, 0>>, <<0, 9, SubUnits(r) - 1>>, <<0, 59, SubUnits(r) - 1>>,
      <<59, 59, SubUnits(r) - 1>> }

\* Idle with the display showing the counters: power-on (init_system, init_game),
\* or paused at one of the start times with every button released since
Init ==
    /\ rev \in Revisions
    /\ is_cpu_fast \in BOOLEAN
    /\ stopwatch = FALSE
    /\ play_tick_sfx = FALSE
    /\ \E t \in StartTimes(rev) :
          /\ minutes = Encode(rev, t[1])
          /\ seconds = Encode(rev, t[2])
          /\ hundredths = t[3]
          /\ vram = Render(rev, minutes, seconds, hundredths)
          /\ num_zeros = IF rev = "bin" /\ t # <<0, 0, 0>> THEN NumZeros(t[3]) ELSE 0
          /\ TIMA_REG = TimerCounterAt(rev, is_cpu_fast, t)
    /\ TMA_REG = TimerModulo(rev, is_cpu_fast)
    /\ flag_sets = 0 /\ sec_incs = 0
    /\ isr_in_print = FALSE
    /\ print_t0 = <<0, 0, 0>>
    /\ fresh_start = FALSE
    /\ TAC_REG = 0
    /\ IF_TIM = FALSE
    /\ pc = "hi_cur"
    /\ pad = {} /\ prev_joypad = {} /\ current_joypad = {}
    /\ isrs = 0 /\ idle_isrs = 0
    /\ pressA = 0 /\ pressB = 0
    /\ f_run0 = FALSE /\ f_trans = {}
    /\ since_reset = FALSE
    /\ cues = 0

Next ==
    \/ Tick(MaxTicks)
    \/ OverflowMasked(MaxTicks)
    \/ IsrPending
    \/ \E b \in Buttons : Press(b)
    \/ \E b \in Buttons : Release(b)
    \/ HiRead
    \/ HiConfirm
    \/ PauseWriteTac
    \/ PauseWriteFlag
    \/ StartWriteTac
    \/ StartWriteFlag
    \/ HiCancel
    \/ ResetStopwatch
    \/ HiPrev
    \/ Vsync
    \/ HandleStopwatch
    \/ \E k \in 1..6 : PrintStopwatch(k)
    \/ CueCheck
    \/ CueClear

Spec == Init /\ [][Next]_vars

\* the state right after the first start_stopwatch from power-on, the button
\* released again: Running from 00:00:00
InitRunning ==
    /\ rev \in Revisions
    /\ is_cpu_fast = FALSE
    /\ stopwatch = TRUE
    /\ play_tick_sfx = FALSE
    /\ minutes = 0 /\ seconds = 0 /\ hundredths = 0
    /\ TAC_REG = StartTac(rev, is_cpu_fast)
    /\ IF_TIM = FALSE
    /\ pc = "hi_B"
    /\ pad = {J_A} /\ prev_joypad = {} /\ current_joypad = {J_A}
    /\ num_zeros = 0
    /\ vram = Render(rev, 0, 0, 0)
    /\ isrs = 0 /\ idle_isrs = 0
    /\ pressA = 1 /\ pressB = 0
    /\ f_run0 = FALSE /\ f_trans = {"start"}
    /\ since_reset = FALSE
    /\ cues = 0
    /\ TIMA_REG = TimerCounterAt(rev, is_cpu_fast, <<0, 0, 0>>)
    /\ TMA_REG = TimerModulo(rev, is_cpu_fast)
    /\ flag_sets = 0 /\ sec_incs = 0
    /\ isr_in_print = FALSE
    /\ print_t0 = <<0, 0, 0>>
    /\ fresh_start = FALSE

\* Running continuously: nothing but timer interrupts
NextTick == Tick(MaxRunTicks)

SpecTick == InitRunning /\ [][NextTick]_vars

-----------------------------------------------------------------------------
(* The timer counter. TIMA_REG is counted increment by increment, also inside
   the CRITICAL sections of pause_stopwatch and start_stopwatch and between
   the reads of print_stopwatch. The main loop runs step by step as above;
   of the joypad only the outcome of handle_inputs' tests is kept: a frame
   calls pause_stopwatch or start_stopwatch, or neither, and then
   reset_stopwatch or not. *)

\* the timer's input clock in Hz for a TAC value (the table of TAC_REG values),
\* doubled when set_cpu has switched the CPU to double speed (cpu_fast)
TimerInputHz(tac, fast) ==
    (IF fast THEN 2 ELSE 1) *
    (CASE tac % 4 = 0 -> 4096
       [] tac % 4 = 1 -> 262144
       [] tac % 4 = 2 -> 65536
       [] OTHER       -> 16384)

\* reset_stopwatch: stopwatch = FALSE and the three counters zeroed
reset_stopwatch(st) ==
    [st EXCEPT !.sw = FALSE, !.m = ResetTime.m, !.s = ResetTime.s, !.h = ResetTime.h]

\* the registers and variables after a control function
Commit(st) ==
    /\ TAC_REG' = st.tac
    /\ stopwatch' = st.sw
    /\ TIMA_REG' = st.tima
    /\ TMA_REG' = st.tma
    /\ minutes' = st.m
    /\ seconds' = st.s
    /\ hundredths' = st.h

\* handle_inputs on a confirm press while Running: pause_stopwatch() is
\* entered and CRITICAL masks interrupts
PauseCall ==
    /\ pc = "hi_cur" /\ MainMay
    /\ stopwatch
    /\ pc' = "pause_tac"
    /\ UNCHANGED <<hw, time, flags, input, screen, history, timer, counts,
                   isr_in_print, marks>>

\* handle_inputs on a confirm press while Idle: start_stopwatch() is entered
\* and CRITICAL masks interrupts
StartCall ==
    /\ pc = "hi_cur" /\ MainMay
    /\ ~stopwatch
    /\ pc' = "start_tac"
    /\ UNCHANGED <<hw, time, flags, input, screen, history, timer, counts,
                   isr_in_print, marks>>

\* handle_inputs on a cancel press while Idle (the timer is stopped), after the
\* confirm test: reset_stopwatch(), and handle_inputs returns
ResetCall ==
    /\ pc \in {"hi_cur", "hi_B"} /\ MainMay
    /\ ~stopwatch
    /\ pc' = "vsync"
    /\ f_trans' = {}
    /\ Commit(reset_stopwatch(Regs))
    /\ vram' = [i \in 1..9 |-> IF i <= 8 THEN TimeZeroTiles[i] ELSE vram[i]]
    /\ since_reset' = TRUE
    /\ UNCHANGED <<rev, is_cpu_fast, IF_TIM, play_tick_sfx, input, num_zeros,
                   isrs, idle_isrs, pressA, pressB, f_run0, cues,
                   counts, isr_in_print, marks>>

\* handle_inputs returns without a call of reset_stopwatch
HandleInputsReturn ==
    /\ pc \in {"hi_cur", "hi_B"} /\ MainMay
    /\ pc' = "vsync"
    /\ f_trans' = {}
    /\ UNCHANGED <<hw, time, flags, input, screen,
                   isrs, idle_isrs, pressA, pressB, f_run0, since_reset, cues,
                   timer, counts, isr_in_print, marks>>

\* one period of the timer's input clock while the timer runs: TIMA_REG counts
\* up; at its overflow the hardware reloads it from TMA_REG and requests the
\* interrupt, which is dispatched at once, or left in IF inside a CRITICAL
\* section (no further period fits into the section after that)
TimaInc(cap) ==
    /\ TimerActive(TAC_REG)
    /\ ~IF_TIM
    /\ IF TIMA_REG < 255
         THEN /\ TIMA_REG' = TIMA_REG + 1
              /\ UNCHANGED <<IF_TIM, time, play_tick_sfx, isrs, idle_isrs, counts,
                             isr_in_print, fresh_start>>
         ELSE /\ Overflows < cap
              /\ TIMA_REG' = TMA_REG
              /\ IF InCritical
                   THEN /\ IF_TIM' = TRUE
                        /\ UNCHANGED <<time, play_tick_sfx, isrs, idle_isrs, counts,
                                       isr_in_print, fresh_start>>
                   ELSE /\ RunIsr
                        /\ UNCHANGED IF_TIM
    /\ UNCHANGED <<rev, is_cpu_fast, TAC_REG, TMA_REG, stopwatch, input, screen, pc,
                   pressA, pressB, f_run0, f_trans, since_reset, cues, print_t0>>

\* the start times and the last minute the BCD counter can hold
TimerStartTimes(r) == StartTimes(r) \cup {<<99, 59, SubUnits(r) - 1>>}

\* Idle at power-on or paused at one of the start times, between two frames
InitTimer ==
    /\ rev \in Revisions
    /\ is_cpu_fast \in BOOLEAN
    /\ stopwatch = FALSE
    /\ play_tick_sfx = FALSE
    /\ \E t \in TimerStartTimes(rev) :
          /\ minutes = Encode(rev, t[1])
          /\ seconds = Encode(rev, t[2])
          /\ hundredths = t[3]
          /\ vram = Render(rev, minutes, seconds, hundredths)
          /\ num_zeros = IF rev = "bin" /\ t # <<0, 0, 0>> THEN NumZeros(t[3]) ELSE 0
          /\ TIMA_REG = TimerCounterAt(rev, is_cpu_fast, t)
    /\ TMA_REG = TimerModulo(rev, is_cpu_fast)
    /\ TAC_REG = 0
    /\ IF_TIM = FALSE
    /\ pc = "hi_cur"
    /\ pad = {} /\ prev_joypad = {} /\ current_joypad = {}
    /\ isrs = 0 /\ idle_isrs = 0
    /\ pressA = 0 /\ pressB = 0
    /\ f_run0 = FALSE /\ f_trans = {}
    /\ since_reset = FALSE
    /\ cues = 0
    /\ flag_sets = 0 /\ sec_incs = 0
    /\ isr_in_print = FALSE
    /\ print_t0 = <<0, 0, 0>>
    /\ fresh_start = FALSE

NextTimer ==
    \/ TimaInc(MaxTimerTicks)
    \/ IsrPending
    \/ PauseCall
    \/ PauseWriteTac
    \/ PauseWriteFlag
    \/ StartCall
    \/ StartWriteTac
    \/ StartWriteFlag
    \/ ResetCall
    \/ HandleInputsReturn
    \/ Vsync
    \/ HandleStopwatch
    \/ \E k \in 1..6 : PrintStopwatch(k)
    \/ CueCheck
    \/ CueClear

SpecTimer == InitTimer /\ [][NextTimer]_vars

-----------------------------------------------------------------------------
(* Claims *)

\* the counters t ticks after 00:00:00
Elapsed(r, t) ==
    [m |-> (t \div (SubUnits(r) * 60)) % 60,
     s |-> (t \div SubUnits(r)) % 60,
     h |-> t % SubUnits(r)]

\* C1: Running continuously from 00:00:00, after t < N*3600 invocations of the
\* ISR the counters decode to minutes = (t / (N*60)) mod 60,
\* seconds = (t / N) mod 60, subUnit = t mod N, in both revisions.
C1_CountersFollowTicks ==
    (stopwatch /\ isrs < SubUnits(rev) * 3600) =>
        /\ Decode(rev, minutes) = Elapsed(rev, isrs).m
        /\ Decode(rev, seconds) = Elapsed(rev, isrs).s
        /\ hundredths = Elapsed(rev, isrs).h

\* the BCD revision one tick before its tenth minute: 0x09:0x59 and 127/128
C1_Witness ==
    /\ rev = "bcd" /\ stopwatch
    /\ isrs = 128 * 600 - 1
    /\ minutes = 9 /\ seconds = 89 /\ hundredths = 127

\* C2 (as claimed): the minutes value never exceeds 59.
C2_MinutesAtMost59 == Decode(rev, minutes) <= 59

\* C3 (as claimed): one physical press of a button triggers at most one control
\* transition: never a start and a pause from one confirm press, never two
\* resets from one cancel press.
C3_OneTransitionPerPress == pressA <= 1 /\ pressB <= 1

\* no press so far has caused two transitions (the failures below do not rest
\* on the double trigger of C3)
SinglePresses == pressA <= 1 /\ pressB <= 1

\* C4 (as claimed): a frame that is Running when handle_inputs begins executes
\* no reset, whatever buttons are pressed in it (stated for behaviours in which
\* no press has caused two transitions).
C4_NoResetInFrameBegunRunning ==
    (SinglePresses /\ f_run0) => "reset" \notin f_trans

\* C4 (amended): reset_stopwatch runs only with the stopwatch Idle at the cancel
\* test; a frame that begins Running resets only after its own confirm edge has
\* paused the stopwatch, and a cancel edge tested while Running writes nothing.
C4_ResetOnlyWhenIdleAtCancelTest ==
    /\ pc = "reset" => ~stopwatch
    /\ (f_run0 /\ "reset" \in f_trans) => "pause" \in f_trans
    /\ "cancel_ignored" \in f_trans => "reset" \notin f_trans

\* a cancel press-edge was tested in a Running frame and rejected
C4_Witness ==
    /\ pc = "hi_prev" /\ f_run0 /\ stopwatch
    /\ f_trans = {"cancel_ignored"}
    /\ isrs > 0

\* C5: a cancel press-edge detected while Idle zeroes minutes, seconds and
\* subUnit whatever they held, leaves the run state Idle and the timer stopped,
\* and the counters stay (0,0,0) until the next start.
C5_ResetZeroesUntilNextStart ==
    since_reset =>
        /\ minutes = 0 /\ seconds = 0 /\ hundredths = 0
        /\ ~stopwatch
        /\ ~TimerActive(TAC_REG)

\* the frame after the reset of a stopwatch that had counted ticks is over
C5_Witness ==
    /\ since_reset /\ pc = "hi_cur"
    /\ isrs - idle_isrs > 0

\* C6: a confirm press-edge toggles the run state: detected while Idle it makes
\* the timer divider active and the run state Running, detected while Running it
\* stops the divider and makes the run state Idle; neither transition writes
\* minutes, seconds or subUnit.
C6_ConfirmTogglesRunState ==
    [][ /\ (pc = "hi_A" /\ pc' # pc) =>
              pc' = IF ~ConfirmEdge(pad, prev_joypad) THEN "hi_B"
                    ELSE IF stopwatch THEN "pause_tac" ELSE "start_tac"
        /\ (InCritical /\ pc' # pc) => time' = time
        /\ (pc = "start_flag" /\ pc' # pc) =>
              (stopwatch' /\ TimerActive(TAC_REG'))
        /\ (pc = "pause_flag" /\ pc' # pc) =>
              (~stopwatch' /\ ~TimerActive(TAC_REG')) ]_vars

\* a pause has just completed on a stopwatch that was started and counted ticks
C6_Witness ==
    /\ "pause" \in f_trans /\ pc = "hi_B"
    /\ ~stopwatch /\ ~TimerActive(TAC_REG)
    /\ isrs - idle_isrs > 0

\* C7: while the run state is Idle the counters change only by the reset
\* transition, over any main-loop steps and any ISR invocations, an interrupt
\* left pending by the pause included.
C7_IdleCountersFrozen ==
    [][ (~stopwatch /\ time' # time) => (pc = "reset" /\ pc' = "hi_prev") ]_vars

\* the ISR has run while Idle (the request was pending when the pause ended)
C7_Witness == ~stopwatch /\ idle_isrs > 0 /\ pc = "hs"

\* C8 (as claimed): once paused, the displayed seconds and sub-unit digits are
\* those of the counters at the moment of the pause; the counters are frozen
\* while Idle (C7), so these are the counters' digits in every Idle state
\* (stated for behaviours in which no press has caused two transitions).
C8_PausedDisplayShowsCounters ==
    (SinglePresses /\ ~stopwatch) =>
        \A i \in {Cell(9), Cell(10), Cell(12), Cell(13)} :
            vram[i] = Render(rev, minutes, seconds, hundredths)[i]

\* C9 (as claimed): every timer overflow, once served, has advanced the
\* sub-unit counter by exactly one; overflows occur only with the divider active
\* (stated for behaviours in which no press has caused two transitions).
C9_EveryOverflowCounted ==
    [][ (SinglePresses /\ isrs' = isrs + 1) =>
            hundredths' = (hundredths + 1) % SubUnits(rev) ]_vars

\* C10: an ISR invocation sets the tick cue flag exactly when it increments
\* seconds (the rollover to 0 included); otherwise it leaves the flag as it was.
C10_FlagSetIffSecondsIncrement ==
    [][ isrs' = isrs + 1 =>
          IF seconds' # seconds THEN play_tick_sfx' = TRUE
                                ELSE play_tick_sfx' = play_tick_sfx ]_vars

\* the ISR has rolled seconds over from 59 to 0 and raised the flag
C10_Witness ==
    /\ play_tick_sfx /\ isrs = 1
    /\ minutes = 1 /\ seconds = 0 /\ hundredths = 0

\* C11 as stated: Running continuously, the ISR sets the cue flag on exactly
\* one invocation of every 60*N consecutive ones (once per 60 seconds)
C11_OneFlagSetPerMinute == flag_sets = isrs \div (60 * SubUnits(rev))

\* C11, amended: Running continuously, the ISR sets the cue flag on exactly one
\* invocation of every N consecutive ones (once per second of run time): after
\* t invocations from 00:00:00 it has set the flag t div N times
C11_OneFlagSetPerSecond == flag_sets = isrs \div SubUnits(rev)

C11_Witness == isrs = 60 * SubUnits(rev) /\ flag_sets = 60

\* C12: in the BCD revision an ISR invocation that increments seconds from 0x59
\* leaves seconds = 0x00 and minutes one higher in BCD, and no invocation
\* returns with seconds = 0x5A or 0x60
C12_SecondsCarryAt59 ==
    [][(rev = "bcd" /\ isrs' = isrs + 1) =>
            /\ seconds' \notin {90, 96}
            /\ (stopwatch /\ seconds = 89 /\ hundredths = 127) =>
                   /\ seconds' = 0
                   /\ minutes' = BcdEncode(BcdDecode(minutes'))
                   /\ BcdDecode(minutes') = (BcdDecode(minutes) + 1) % 100]_vars

C12_Witness ==
    /\ rev = "bcd" /\ isrs = 128 * 60
    /\ minutes = 1 /\ seconds = 0 /\ hundredths = 0

\* C13: pause, start and reset write neither TIMA_REG nor TMA_REG, and TIMA_REG
\* stands still while the timer is stopped: the count a pause leaves in
\* TIMA_REG is the count the next start continues from, one increment at a time
C13_ControlLeavesTimer ==
    [][/\ TMA_REG' = TMA_REG
       /\ (~TimerActive(TAC_REG) \/ TAC_REG' # TAC_REG \/ stopwatch' # stopwatch)
              => TIMA_REG' = TIMA_REG
       /\ TIMA_REG' # TIMA_REG
              => TIMA_REG' = (IF TIMA_REG < 255 THEN TIMA_REG + 1 ELSE TMA_REG)]_vars

C13_Witness ==
    /\ ~stopwatch /\ ~TimerActive(TAC_REG)
    /\ isrs > 0
    /\ TMA_REG < TIMA_REG /\ TIMA_REG < 255

\* C14: pause_stopwatch executed twice in a row leaves the run state, the timer
\* control register, TIMA_REG and the three counters as executing it once does
C14_PauseIdempotent ==
    pause_stopwatch(rev, pause_stopwatch(rev, Regs)) = pause_stopwatch(rev, Regs)

C14_Witness ==
    /\ stopwatch /\ TimerActive(TAC_REG)
    /\ isrs = 2 /\ TIMA_REG = 255
    /\ pause_stopwatch(rev, Regs) # Regs

\* C15: in each revision the timer interrupt rate is the same in Normal and in
\* Double speed mode: the input clock selected by start_stopwatch at the actual
\* CPU speed, divided by 256 - TMA_REG, is equal for the two modes. (Stated as
\* a product: rate of this mode * period of the other = rate of the other mode
\* * period of this one.)
C15_SameInterruptRate ==
    TimerActive(TAC_REG) =>
        TimerInputHz(TAC_REG, is_cpu_fast) * (256 - TimerModulo(rev, ~is_cpu_fast))
      = TimerInputHz(StartTac(rev, ~is_cpu_fast), ~is_cpu_fast) * (256 - TMA_REG)

C15_Witness ==
    /\ rev = "bin" /\ is_cpu_fast
    /\ TimerActive(TAC_REG) /\ isrs > 0
    /\ TimerInputHz(TAC_REG, is_cpu_fast) = 8192
    /\ 256 - TMA_REG = 82

\* C16: at every point outside the interrupt-masked sections of start and
\* pause the run state is Running exactly when the timer's start bit is set,
\* so the ISR (which runs only outside those sections) never sees them disagree
C16_RunStateMatchesTimer ==
    ~InCritical => (stopwatch <=> TimerActive(TAC_REG))

C16_Witness ==
    /\ ~InCritical /\ ~stopwatch /\ ~TimerActive(TAC_REG)
    /\ "pause" \in f_trans /\ isrs > idle_isrs

\* C17: carries are never deferred: in every state between two ISR invocations
\* (every state the main loop can observe) the sub-unit is in 0..N-1 and
\* seconds stand for 0..59 (0x00..0x59 in BCD); 100, 60 and 0x60 are never seen
C17_CarriesResolved ==
    /\ hundredths \in 0..(SubUnits(rev) - 1)
    /\ Decode(rev, seconds) \in 0..59
    /\ seconds = Encode(rev, Decode(rev, seconds))

C17_Witness ==
    /\ rev = "bin" /\ isrs = 6000
    /\ minutes = 1 /\ seconds = 0 /\ hundredths = 0

\* C18: in the BCD revision both nibbles of seconds and of minutes are in 0..9
\* in every reachable state, after any sequence of ticks, pauses, starts and
\* resets
C18_BcdNibblesValid ==
    rev = "bcd" =>
        /\ \A x \in {seconds, minutes} : x \div 16 \in 0..9 /\ x % 16 \in 0..9
        \* and the next increment of either keeps them so
        /\ \A x \in {seconds, minutes} :
              BcdIncrement(x) \div 16 \in 0..9 /\ BcdIncrement(x) % 16 \in 0..9

C18_Witness ==
    /\ rev = "bcd" /\ ~stopwatch /\ isrs = 1 /\ sec_incs = 1
    /\ minutes = 96 /\ seconds = 0 /\ hundredths = 0

\* C19: the main loop triggers the tick cue only when the cue flag is set and
\* the run state is Running, and clears the flag after each trigger; the
\* number of cues triggered never exceeds the number of seconds increments the
\* ISR has performed
C19_CuesFollowSeconds ==
    [][/\ cues' # cues => (cues' = cues + 1 /\ play_tick_sfx /\ stopwatch)
       /\ (pc = "cue_clr" /\ pc' # pc) => ~play_tick_sfx'
       /\ cues' <= sec_incs']_vars

C19_Witness ==
    /\ stopwatch /\ pc = "hi_cur"
    /\ cues = 1 /\ sec_incs = 1 /\ ~play_tick_sfx

\* the tiles at columns 6-7, 9-10 and 12-13 of row 6
DigitCells == <<vram[Cell(6)], vram[Cell(7)], vram[Cell(9)], vram[Cell(10)],
                vram[Cell(12)], vram[Cell(13)]>>

\* the digit tiles of a value below 100 written with two decimal digits
TwoDigitTiles(n) == <<DigitTile(n \div 10), DigitTile(n % 10)>>

\* the hundredths of a second a sub-unit count stands for
Hundredths(r, h) == IF r = "bin" THEN h ELSE (h * 100) \div 128

\* C20: when no ISR invocation falls into a Running frame's print_stopwatch and
\* minutes are at most 59, the six digit cells it has written show minutes,
\* seconds and the sub-unit (in hundredths of a second) as two decimal digits
\* each, with a leading zero
C20_PrintShowsTwoDigits ==
    (pc = "cue_chk" /\ ~isr_in_print /\ Decode(rev, minutes) <= 59) =>
        DigitCells = TwoDigitTiles(Decode(rev, minutes))
                     \o TwoDigitTiles(Decode(rev, seconds))
                     \o TwoDigitTiles(Hundredths(rev, hundredths))

\* 6000 ticks at N = 100 from 00:00:00 (one tick after 00:59:99), printed: the
\* display reads 01:00:00
C20_Witness ==
    /\ rev = "bin" /\ pc = "cue_chk" /\ ~isr_in_print
    /\ minutes = 1 /\ seconds = 0 /\ hundredths = 0
    /\ SubSeq(vram, 1, 8) = <<16, 17, 26, 16, 16, 26, 16, 16>>

\* the timer period (256 - TMA) the boot code sets up for a CPU speed mode
TimerPeriod(r, fast) == 256 - TimerModulo(r, fast)

\* C21 as stated: in each revision the period written for Double mode is half
\* the period written for Normal mode (modulo = 256 - baseTicks / speedFactor)
C21_DoublePeriodIsHalf ==
    /\ 256 - TMA_REG = TimerPeriod(rev, is_cpu_fast)
    /\ 2 * TimerPeriod(rev, TRUE) = TimerPeriod(rev, FALSE)

\* C21, amended: the binary revision, which selects a four times slower timer
\* clock in Double mode, writes half the Normal period for Double mode; the BCD
\* revision, which keeps the clock selection, writes twice the Normal period
C21_PeriodFollowsClock ==
    /\ 256 - TMA_REG = TimerPeriod(rev, is_cpu_fast)
    /\ rev = "bin" => 2 * TimerPeriod(rev, TRUE) = TimerPeriod(rev, FALSE)
    /\ rev = "bcd" => TimerPeriod(rev, TRUE) = 2 * TimerPeriod(rev, FALSE)

C21_Witness ==
    /\ rev = "bcd" /\ is_cpu_fast /\ isrs > 0
    /\ TMA_REG = 192 /\ TimerPeriod(rev, FALSE) = 32

\* the counters j counted ticks after they held t
RECURSIVE Ticked(_, _, _)
Ticked(r, t, j) ==
    IF j = 0 THEN t
    ELSE LET n == stopwatch_timer_isr(r, TRUE, t[1], t[2], t[3], FALSE)
         IN  Ticked(r, <<n.m, n.s, n.h>>, j - 1)

\* the values the three counters have jointly held since the first read of
\* this frame's print_stopwatch
HeldInPrint ==
    LET n == CHOOSE k \in 0..isrs :
                 Ticked(rev, print_t0, k) = <<minutes, seconds, hundredths>>
    IN  {Ticked(rev, print_t0, j) : j \in 0..n}

\* the six digit cells of a display that shows the counters t
Shown(r, t) ==
    TwoDigitTiles(Decode(r, t[1])) \o TwoDigitTiles(Decode(r, t[2]))
    \o TwoDigitTiles(Hundredths(r, t[3]))

\* C22: with the ISR free to run between any two reads of print_stopwatch, the
\* (minutes, seconds, sub-unit) triple a frame has drawn is a value the three
\* counters jointly held at one instant of that frame
C22_DrawnIsSnapshot ==
    pc = "cue_chk" => \E t \in HeldInPrint : DigitCells = Shown(rev, t)

\* C23: in the binary revision, with the ISR free to run between the read that
\* sets num_zeros and the read converted by uitoa, every field is drawn as
\* exactly two cells (leading zeros plus digits), so that the separator cells
\* (8,6) and (11,6) keep the ':' tile, no second cell is left unwritten, and
\* (14,6) holds nothing but the blank tile
C23_FieldsDrawnAsTwoCells ==
    rev = "bin" =>
        /\ \A k \in {2, 4, 6} :
               (pc = PrintPc[k] /\ MainMay) =>
                   num_zeros + Len(Uitoa(PrintField("bin", k))) = 2
        /\ vram[Cell(8)] = TimeZeroTiles[3]
        /\ vram[Cell(11)] = TimeZeroTiles[6]
        /\ vram[Cell(14)] = 0

\* C24: after a reset followed by a start, no tick cue is triggered before the
\* ISR has performed the first seconds increment following that start (a
\* cue flag left set at a pause does not fire a cue while the counters read
\* less than one second); every press taken as one transition
C24_NoCueBeforeFirstSecond ==
    [][(cues' = cues + 1 /\ SinglePresses) => ~fresh_start]_vars

\* C25: in the BCD revision MilTable128[i] is, for every raw sub-unit value i
\* in 0..127 (every value the sub-unit counter takes), the two decimal digits
\* of floor(i*100/128); the table is non-decreasing in i, starts at 00 and ends
\* at 99
C25_MilTableIsFloor ==
    rev = "bcd" =>
        LET i == hundredths IN
        /\ i \in 0..127 /\ Len(MilTable128) = 128
        /\ MilDigit(i, 0) = ((i * 100) \div 128) \div 10
        /\ MilDigit(i, 1) = ((i * 100) \div 128) % 10
        /\ i < 127 => MilTable128[i + 1] <= MilTable128[i + 2]
        /\ MilTable128[1] = 0 /\ MilTable128[128] = 99

C25_Witness ==
    /\ rev = "bcd" /\ isrs = 127 /\ hundredths = 127
    /\ MilDigit(hundredths, 0) = 9 /\ MilDigit(hundredths, 1) = 9

====
